---- MODULE Spec2Model ----
(***************************************************************************)
(* The terminal bridge of viewer-app/src-tauri/src/main.rs: the commands   *)
(* spawn_terminal and write_terminal, the shared TerminalState slot behind *)
(* its Mutex, the two reader threads and the wait thread that              *)
(* spawn_terminal starts, the subprocess they talk to, and the frontend    *)
(* that receives the "terminal-output" events.                             *)
(***************************************************************************)
EXTENDS Integers, Sequences, FiniteSets, TLC

VARIABLES
    targetOs,    \* cfg!(target_os): "windows", "linux" or "macos", fixed at build time
    lock,        \* holder of the TerminalState mutex, NoThread when free
    slot,        \* Option<TerminalProcess>: <<>> is None, <<[stdin |-> pid]>> is Some
    pc,          \* per command thread: where it is in its command
    arg,         \* per command thread: the data argument of write_terminal
    sent,        \* per command thread: how many bytes of data write_all has written
    prog,        \* per command thread: the program spawn_terminal chose
    wslExists,   \* per command thread: whether spawn_terminal found wsl.exe
    ret,         \* per command thread: what its last command returned
    atCall,      \* per command thread: what the slot held when its command began
    alive,       \* per subprocess: it has not exited yet
    exitStatus,  \* per subprocess: its exit status, NoStatus while alive
    written,     \* per subprocess and channel: the writes it has made, in order
    pipe,        \* per subprocess and channel: bytes written and not yet read
    pump,        \* per subprocess and channel: state of the reader thread
    watcher,     \* per subprocess: state of the wait thread
    stdinBuf,    \* per subprocess: the bytes its stdin pipe has received, in order
    accepted,    \* per subprocess: the data of the write_terminal calls that
                 \* returned Ok(()), in the order of their returns
    sink,        \* the events emitted to the frontend, in order
    content,         \* parse_knowledge_log: the lines of its content argument
    pos,             \* parse_knowledge_log: how many lines the loop has taken
    current_date,    \* parse_knowledge_log: its locals
    current_type,
    current_summary,
    current_detail,
    current_source,
    in_entry,
    entries,         \* parse_knowledge_log: the records pushed so far
    parsed           \* parse_knowledge_log has returned

termVars == <<targetOs, lock, slot, pc, arg, sent, prog, wslExists, ret, atCall,
              alive, exitStatus, written, pipe, pump, watcher, stdinBuf,
              accepted, sink>>

parseVars == <<content, pos, current_date, current_type, current_summary,
               current_detail, current_source, in_entry, entries, parsed>>

vars == <<termVars, parseVars>>

(***************************************************************************)
(* Bounds of the model.                                                    *)
(***************************************************************************)
\* number of threads that invoke commands concurrently
NumCallers == 2
\* number of write calls a subprocess makes on its output channels
MaxWrites == 2
\* number of "ls\n" payloads a subprocess receives on its stdin
MaxIn == 2
\* a read or write transfers all the bytes on offer, or leaves at most
\* MaxLeft of them
MaxLeft == 1

Callers == 1..NumCallers
Channels == {"stdout", "stderr"}

(***************************************************************************)
(* Program constants.                                                      *)
(***************************************************************************)
\* let mut buf = [0u8; 4096]
BufSize == 4096
\* &data[..data.len().min(50)]
WriteLogLimit == 50
\* &text[..text.len().min(100)]
ChunkLogLimit == 100

NoThread == 0
NoStatus == -1

Min(a, b) == IF a < b THEN a ELSE b
Max(a, b) == IF a > b THEN a ELSE b

Take(s, n) == SubSeq(s, 1, n)
Drop(s, n) == SubSeq(s, n + 1, Len(s))

RECURSIVE Flatten(_)
Flatten(ss) == IF ss = <<>> THEN <<>> ELSE Head(ss) \o Flatten(Tail(ss))

(***************************************************************************)
(* Strings are their UTF-8 bytes.  String::from_utf8_lossy keeps every     *)
(* well-formed sequence and replaces every maximal ill-formed part by      *)
(* U+FFFD (EF BF BD).                                                      *)
(***************************************************************************)
Replacement == <<239, 191, 189>>

IsCont(b) == b >= 128 /\ b <= 191

Utf8Width(b) ==
    IF b < 128 THEN 1
    ELSE IF b >= 194 /\ b <= 223 THEN 2
    ELSE IF b >= 224 /\ b <= 239 THEN 3
    ELSE IF b >= 240 /\ b <= 244 THEN 4
    ELSE 0

SecondOk(b1, b2) ==
    IF b1 = 224 THEN b2 >= 160 /\ b2 <= 191
    ELSE IF b1 = 237 THEN b2 >= 128 /\ b2 <= 159
    ELSE IF b1 = 240 THEN b2 >= 144 /\ b2 <= 191
    ELSE IF b1 = 244 THEN b2 >= 128 /\ b2 <= 143
    ELSE IsCont(b2)

\* the number of leading bytes of bs that start a well-formed sequence
GoodLen(bs) ==
    LET w == Utf8Width(bs[1]) IN
    IF w = 0 THEN 0
    ELSE IF w = 1 \/ Len(bs) < 2 \/ ~SecondOk(bs[1], bs[2]) THEN 1
    ELSE IF w = 2 \/ Len(bs) < 3 \/ ~IsCont(bs[3]) THEN 2
    ELSE IF w = 3 \/ Len(bs) < 4 \/ ~IsCont(bs[4]) THEN 3
    ELSE 4

\* the length of the longest prefix of bs made of ASCII bytes only
AsciiRun(bs) ==
    LET nonAscii == {i \in 1..Len(bs) : bs[i] >= 128} IN
    IF nonAscii = {} THEN Len(bs)
    ELSE (CHOOSE k \in nonAscii : \A i \in nonAscii : k <= i) - 1

RECURSIVE FromUtf8Lossy(_)
FromUtf8Lossy(bs) ==
    IF bs = <<>> THEN <<>>
    ELSE LET a == AsciiRun(bs)
             g == GoodLen(bs)
         IN  IF a > 0
             THEN Take(bs, a) \o FromUtf8Lossy(Drop(bs, a))
             ELSE IF g = Utf8Width(bs[1]) /\ g > 0
             THEN Take(bs, g) \o FromUtf8Lossy(Drop(bs, g))
             ELSE Replacement \o FromUtf8Lossy(Drop(bs, Max(1, g)))

\* str::is_char_boundary(idx), idx counted from 0
IsCharBoundary(s, idx) ==
    \/ idx = 0
    \/ idx = Len(s)
    \/ idx < Len(s) /\ ~IsCont(s[idx + 1])

\* &s[..s.len().min(limit)] panics unless the cut is on a char boundary
LogSliceOk(s, limit) == IsCharBoundary(s, Min(Len(s), limit))

(***************************************************************************)
(* The values the commands and the subprocess are given.                   *)
(***************************************************************************)
\* "ls\n"
DataLs == <<108, 115, 10>>
\* 49 times "a", then U+00E9: byte 50 is inside the last character
DataWide == [i \in 1..49 |-> 97] \o <<195, 169>>
WriteData == {<<>>, DataLs, DataWide}

\* "$ "
BlockPrompt == <<36, 32>>
\* U+00E9
BlockAccent == <<195, 169>>
\* 99 times "a", then U+00E9: byte 100 is inside the last character
BlockWide == [i \in 1..99 |-> 97] \o <<195, 169>>
OutBlocks == {BlockPrompt, BlockAccent, BlockWide}

\* "\r\n[Process exited]\r\n"
ProcessExitedMsg ==
    <<13, 10, 91, 80, 114, 111, 99, 101, 115, 115, 32,
      101, 120, 105, 116, 101, 100, 93, 13, 10>>

(***************************************************************************)
(* parse_knowledge_log: text.                                              *)
(***************************************************************************)
\* str::starts_with
StartsWith(s, p) == Len(s) >= Len(p) /\ SubSeq(s, 1, Len(p)) = p

\* &s[n..]
StrDrop(s, n) == SubSeq(s, n + 1, Len(s))

\* str::trim_start_matches: the prefix is removed as often as it occurs
RECURSIVE TrimStartMatches(_, _)
TrimStartMatches(s, p) ==
    IF StartsWith(s, p) THEN TrimStartMatches(StrDrop(s, Len(p)), p) ELSE s

WhiteSpace == {" ", "\t"}

RECURSIVE TrimStart(_)
TrimStart(s) ==
    IF Len(s) > 0 /\ SubSeq(s, 1, 1) \in WhiteSpace
    THEN TrimStart(StrDrop(s, 1)) ELSE s

RECURSIVE TrimEnd(_)
TrimEnd(s) ==
    IF Len(s) > 0 /\ SubSeq(s, Len(s), Len(s)) \in WhiteSpace
    THEN TrimEnd(SubSeq(s, 1, Len(s) - 1)) ELSE s

\* str::trim
Trim(s) == TrimEnd(TrimStart(s))

\* str::find(c): the position of the first c, counted from 1; 0 for None
Find(s, c) ==
    LET at == {i \in 1..Len(s) : SubSeq(s, i, i) = c} IN
    IF at = {} THEN 0 ELSE CHOOSE i \in at : \A j \in at : i <= j

LowerCase == "abcdefghijklmnopqrstuvwxyz"
UpperCase == "ABCDEFGHIJKLMNOPQRSTUVWXYZ"

UpperChar(c) ==
    LET i == Find(LowerCase, c) IN
    IF i = 0 THEN c ELSE SubSeq(UpperCase, i, i)

\* str::to_uppercase
RECURSIVE ToUppercase(_)
ToUppercase(s) ==
    IF s = "" THEN ""
    ELSE UpperChar(SubSeq(s, 1, 1)) \o ToUppercase(StrDrop(s, 1))

(***************************************************************************)
(* parse_knowledge_log: the lines it is given.                             *)
(***************************************************************************)
\* number of lines of a knowledge log
MaxLines == 3

Lines ==
    { "## 2024-01-05",
      "##  2024-02-01 ",
      "### [fix] Login bug",
      "### Plain note",
      "### [todo no bracket",
      "### ### twice",
      "- **Detail**: more",
      "**Source**: mail",
      "#### deep" }

Contents == UNION {[1..n -> Lines] : n \in 0..MaxLines}

Engagement == "acme"
Workstream == "onboarding"

(***************************************************************************)
(* parse_knowledge_log: the loop over the lines.                           *)
(***************************************************************************)
DetailTag == "**Detail**:"
SourceTag == "**Source**:"

\* line.starts_with("## ") && !line.starts_with("### ")
IsDateHeading(line) == StartsWith(line, "## ") /\ ~StartsWith(line, "### ")

\* line.starts_with("### ")
IsEntryHeading(line) == StartsWith(line, "### ")

\* line.trim_start_matches(prefix).trim()
HeadingText(line, prefix) == Trim(TrimStartMatches(line, prefix))

\* header.strip_prefix('[') and rest.find(']') both give Some
WellFormed(header) ==
    StartsWith(header, "[") /\ Find(StrDrop(header, 1), "]") > 0

\* rest[..bracket_end].to_uppercase(), or String::new()
EntryType(header) ==
    IF WellFormed(header)
    THEN LET rest == StrDrop(header, 1) IN
         ToUppercase(SubSeq(rest, 1, Find(rest, "]") - 1))
    ELSE ""

\* rest[bracket_end + 1..].trim(), or the header
EntrySummary(header) ==
    IF WellFormed(header)
    THEN LET rest == StrDrop(header, 1) IN Trim(StrDrop(rest, Find(rest, "]")))
    ELSE header

\* push_entry
PushEntry(es) ==
    Append(es, [engagement |-> Engagement,
                workstream |-> Workstream,
                date |-> current_date,
                type |-> current_type,
                summary |-> current_summary,
                detail |-> current_detail,
                source |-> current_source])

\* a push that does not look at in_entry
FlushedAlways == PushEntry(entries)

\* if in_entry { push_entry(..) }
Flushed == IF in_entry THEN PushEntry(entries) ELSE entries

\* no parse_knowledge_log call is under way
NoParse ==
    /\ content = <<>>
    /\ pos = 0
    /\ current_date = ""
    /\ current_type = ""
    /\ current_summary = ""
    /\ current_detail = ""
    /\ current_source = ""
    /\ in_entry = FALSE
    /\ entries = <<>>
    /\ parsed = TRUE

\* the "## " branch
ParseDate ==
    /\ ~parsed
    /\ pos < Len(content)
    /\ IsDateHeading(content[pos + 1])
    /\ entries' = Flushed
    /\ current_date' = HeadingText(content[pos + 1], "## ")
    /\ in_entry' = FALSE
    /\ pos' = pos + 1
    /\ UNCHANGED <<termVars, content, current_type, current_summary,
                   current_detail, current_source, parsed>>

\* the "### " branch
ParseHeading ==
    /\ ~parsed
    /\ pos < Len(content)
    /\ ~IsDateHeading(content[pos + 1])
    /\ IsEntryHeading(content[pos + 1])
    /\ entries' = Flushed
    /\ LET header == HeadingText(content[pos + 1], "### ") IN
          /\ current_type' = EntryType(header)
          /\ current_summary' = EntrySummary(header)
    /\ current_detail' = ""
    /\ current_source' = ""
    /\ in_entry' = TRUE
    /\ pos' = pos + 1
    /\ UNCHANGED <<termVars, content, current_date, parsed>>

\* the "else if in_entry" branch, and the lines that match no branch
ParseOther ==
    /\ ~parsed
    /\ pos < Len(content)
    /\ ~IsDateHeading(content[pos + 1])
    /\ ~IsEntryHeading(content[pos + 1])
    /\ LET trimmed == TrimStartMatches(content[pos + 1], "- ") IN
          /\ current_detail' =
                IF in_entry /\ StartsWith(trimmed, DetailTag)
                THEN Trim(StrDrop(trimmed, Len(DetailTag)))
                ELSE current_detail
          /\ current_source' =
                IF in_entry /\ ~StartsWith(trimmed, DetailTag)
                            /\ StartsWith(trimmed, SourceTag)
                THEN Trim(StrDrop(trimmed, Len(SourceTag)))
                ELSE current_source
    /\ pos' = pos + 1
    /\ UNCHANGED <<termVars, content, current_date, current_type,
                   current_summary, in_entry, entries, parsed>>

\* after the loop: if in_entry { push_entry(..) }, and the return
ParseFinish ==
    /\ ~parsed
    /\ pos = Len(content)
    /\ entries' = Flushed
    /\ parsed' = TRUE
    /\ UNCHANGED <<termVars, content, pos, current_date, current_type,
                   current_summary, current_detail, current_source, in_entry>>

(***************************************************************************)
(* What a command returns.                                                 *)
(***************************************************************************)
Result(k, p) == [kind |-> k, program |-> p]
NoRet == Result("none", "")
AlreadyRunning == Result("already running", "")
Spawned(p) == Result("spawned", p)
SpawnFailed(p) == Result("Failed to spawn", p)
WriteOk == Result("Ok", "")
NoActiveSession == Result("No terminal process running", "")
WriteFailed == Result("Write failed", "")
Panicked == Result("panic", "")

(***************************************************************************)
(* The shell spawn_terminal launches.                                      *)
(***************************************************************************)
\* a choice that never falls back to cmd.exe
LocateAlwaysWsl(os, wslFound) ==
    IF os = "windows" THEN "wsl.exe" ELSE "bash"

Locate(os, wslFound) ==
    IF os = "windows"
    THEN IF wslFound THEN "wsl.exe" ELSE "cmd.exe"
    ELSE "bash"

\* args = vec![] on every branch
LocateArgs(os, wslFound) == <<>>

\* Path::new("C:\\Windows\\System32\\wsl.exe").exists(), probed on Windows only
Probes(os) == IF os = "windows" THEN BOOLEAN ELSE {FALSE}

(***************************************************************************)
(* The TerminalState slot and its mutex.                                   *)
(***************************************************************************)
None == <<>>
Some(pid) == <<[stdin |-> pid]>>

\* a mutex that excludes nobody
LockFreeNoMutex == TRUE

\* state.lock() returns once no other thread holds the guard
LockFree == lock = NoThread

\* a check that never sees the session
SlotOccupiedNever(s) == FALSE

\* guard.is_some()
SlotOccupied(s) == s # None

Init ==
    /\ targetOs \in {"windows", "linux", "macos"}
    /\ lock = NoThread
    /\ slot = None
    /\ pc = [t \in Callers |-> "idle"]
    /\ arg = [t \in Callers |-> <<>>]
    /\ sent = [t \in Callers |-> 0]
    /\ prog = [t \in Callers |-> ""]
    /\ wslExists = [t \in Callers |-> FALSE]
    /\ ret = [t \in Callers |-> NoRet]
    /\ atCall = [t \in Callers |-> ""]
    /\ alive = <<>>
    /\ exitStatus = <<>>
    /\ written = <<>>
    /\ pipe = <<>>
    /\ pump = <<>>
    /\ watcher = <<>>
    /\ stdinBuf = <<>>
    /\ accepted = <<>>
    /\ sink = <<>>
    /\ NoParse

procVars == <<alive, exitStatus, written, pipe, pump, watcher, stdinBuf>>

Pids == 1..Len(alive)

\* the subprocess is dead and its three threads have all finished
SessionOver(p) ==
    /\ ~alive[p]
    /\ watcher[p] = "done"
    /\ \A ch \in Channels : pump[p][ch] # "reading"

\* what a command finds when it begins: no session, a live subprocess, a dead
\* one, or a dead one whose threads have all finished
SlotView ==
    IF slot = None THEN "none"
    ELSE IF alive[slot[1].stdin] THEN "alive"
    ELSE IF SessionOver(slot[1].stdin) THEN "over"
    ELSE "dead"

(***************************************************************************)
(* spawn_terminal                                                          *)
(***************************************************************************)
\* state.lock()
SpawnLock(t) ==
    /\ pc[t] = "idle"
    /\ LockFree
    /\ lock' = t
    /\ pc' = [pc EXCEPT ![t] = "spawn_locked"]
    /\ ret' = [ret EXCEPT ![t] = NoRet]
    /\ atCall' = [atCall EXCEPT ![t] = SlotView]
    /\ UNCHANGED <<parseVars, targetOs, slot, arg, sent, accepted, prog, wslExists, procVars, sink>>

\* if guard.is_some() { return Ok("already running") }
SpawnAlreadyRunning(t) ==
    /\ pc[t] = "spawn_locked"
    /\ SlotOccupied(slot)
    /\ ret' = [ret EXCEPT ![t] = AlreadyRunning]
    /\ pc' = [pc EXCEPT ![t] = "idle"]
    /\ atCall' = [atCall EXCEPT ![t] = ""]
    /\ lock' = NoThread
    /\ UNCHANGED <<parseVars, targetOs, slot, arg, sent, accepted, prog, wslExists, procVars, sink>>

\* the shell is chosen
SpawnLocate(t) ==
    /\ pc[t] = "spawn_locked"
    /\ ~SlotOccupied(slot)
    /\ \E found \in Probes(targetOs) :
          /\ wslExists' = [wslExists EXCEPT ![t] = found]
          /\ prog' = [prog EXCEPT ![t] = Locate(targetOs, found)]
    /\ pc' = [pc EXCEPT ![t] = "spawning"]
    /\ UNCHANGED <<parseVars, targetOs, lock, slot, arg, sent, accepted, ret, atCall, procVars, sink>>

\* a failed spawn that leaves the slot occupied
SpawnFailSetsSlot(t) ==
    /\ pc[t] = "spawning"
    /\ slot' = Some(Len(alive) + 1)
    /\ ret' = [ret EXCEPT ![t] = SpawnFailed(prog[t])]
    /\ prog' = [prog EXCEPT ![t] = ""]
    /\ wslExists' = [wslExists EXCEPT ![t] = FALSE]
    /\ pc' = [pc EXCEPT ![t] = "idle"]
    /\ atCall' = [atCall EXCEPT ![t] = ""]
    /\ lock' = NoThread
    /\ UNCHANGED <<parseVars, targetOs, arg, sent, accepted, procVars, sink>>

\* Command::spawn() fails: the error is returned and the guard dropped
SpawnFail(t) ==
    /\ pc[t] = "spawning"
    /\ ret' = [ret EXCEPT ![t] = SpawnFailed(prog[t])]
    /\ prog' = [prog EXCEPT ![t] = ""]
    /\ wslExists' = [wslExists EXCEPT ![t] = FALSE]
    /\ pc' = [pc EXCEPT ![t] = "idle"]
    /\ atCall' = [atCall EXCEPT ![t] = ""]
    /\ lock' = NoThread
    /\ UNCHANGED <<parseVars, targetOs, slot, arg, sent, accepted, procVars, sink>>

\* Command::spawn() succeeds: the slot is set and the three threads are
\* started
SpawnOk(t) ==
    /\ pc[t] = "spawning"
    /\ alive' = Append(alive, TRUE)
    /\ exitStatus' = Append(exitStatus, NoStatus)
    /\ written' = Append(written, [c \in Channels |-> <<>>])
    /\ pipe' = Append(pipe, [c \in Channels |-> <<>>])
    /\ stdinBuf' = Append(stdinBuf, <<>>)
    /\ accepted' = Append(accepted, <<>>)
    /\ slot' = Some(Len(alive) + 1)
    /\ pump' = Append(pump, [c \in Channels |-> "reading"])
    /\ watcher' = Append(watcher, "waiting")
    /\ pc' = [pc EXCEPT ![t] = "launched"]
    /\ UNCHANGED <<parseVars, targetOs, lock, arg, sent, prog, wslExists, ret, atCall, sink>>

\* a spawn_terminal that joins the wait thread before it returns
SpawnReturnAfterExit(t) ==
    /\ pc[t] = "launched"
    /\ watcher[slot[1].stdin] = "done"
    /\ ret' = [ret EXCEPT ![t] = Spawned(prog[t])]
    /\ prog' = [prog EXCEPT ![t] = ""]
    /\ wslExists' = [wslExists EXCEPT ![t] = FALSE]
    /\ pc' = [pc EXCEPT ![t] = "idle"]
    /\ atCall' = [atCall EXCEPT ![t] = ""]
    /\ lock' = NoThread
    /\ UNCHANGED <<parseVars, targetOs, slot, arg, sent, accepted, procVars, sink>>

\* Ok(format!("spawned {} (pid {})", program, "?")): the threads are left to
\* run and the guard is dropped
SpawnReturn(t) ==
    /\ pc[t] = "launched"
    /\ ret' = [ret EXCEPT ![t] = Spawned(prog[t])]
    /\ prog' = [prog EXCEPT ![t] = ""]
    /\ wslExists' = [wslExists EXCEPT ![t] = FALSE]
    /\ pc' = [pc EXCEPT ![t] = "idle"]
    /\ atCall' = [atCall EXCEPT ![t] = ""]
    /\ lock' = NoThread
    /\ UNCHANGED <<parseVars, targetOs, slot, arg, sent, accepted, procVars, sink>>

(***************************************************************************)
(* write_terminal                                                          *)
(***************************************************************************)
\* the bytes reach the pipe
WriteDelivers(s, data, al) ==
    IF s = None \/ data = <<>> THEN FALSE ELSE al[s[1].stdin]

\* eprintln!(.., &data[..data.len().min(50)]) panics before the lock is taken
WritePanic(t) ==
    /\ pc[t] = "idle"
    /\ \E data \in WriteData : ~LogSliceOk(data, WriteLogLimit)
    /\ ret' = [ret EXCEPT ![t] = Panicked]
    /\ UNCHANGED <<parseVars, targetOs, lock, slot, pc, arg, sent, accepted, prog, wslExists, atCall, procVars, sink>>

\* the bytes of data that write_all has still to write
Rest(t) == Drop(arg[t], sent[t])

\* the log line, then state.lock()
WriteLock(t) ==
    /\ pc[t] = "idle"
    /\ LockFree
    /\ \E data \in WriteData :
          /\ LogSliceOk(data, WriteLogLimit)
          /\ IF WriteDelivers(slot, data, alive)
             THEN Len(stdinBuf[slot[1].stdin]) + Len(data) <= MaxIn * Len(DataLs)
             ELSE TRUE
          /\ arg' = [arg EXCEPT ![t] = data]
    /\ sent' = [sent EXCEPT ![t] = 0]
    /\ lock' = t
    /\ pc' = [pc EXCEPT ![t] = "writing"]
    /\ ret' = [ret EXCEPT ![t] = NoRet]
    /\ atCall' = [atCall EXCEPT ![t] = SlotView]
    /\ UNCHANGED <<parseVars, targetOs, slot, prog, wslExists, accepted, procVars, sink>>

\* a write() accepts all of the bytes it is given, or all but MaxLeft of them
WriteSizes(len) == {n \in 1..len : n = len \/ n + MaxLeft = len}

\* a write() that reports bytes as written and loses the last of them
WriteChunkLosesByte(t) ==
    /\ pc[t] = "writing"
    /\ WriteDelivers(slot, Rest(t), alive)
    /\ \E n \in WriteSizes(Len(Rest(t))) :
          /\ stdinBuf' = [stdinBuf EXCEPT
                             ![slot[1].stdin] = @ \o Take(Rest(t), n - 1)]
          /\ sent' = [sent EXCEPT ![t] = @ + n]
    /\ UNCHANGED <<parseVars, targetOs, lock, slot, pc, arg, prog, wslExists, ret, atCall, alive,
                   exitStatus, written, pipe, pump, watcher, accepted, sink>>

\* write_all: one write() on the pipe of a live subprocess
WriteChunk(t) ==
    /\ pc[t] = "writing"
    /\ WriteDelivers(slot, Rest(t), alive)
    /\ \E n \in WriteSizes(Len(Rest(t))) :
          /\ stdinBuf' = [stdinBuf EXCEPT
                             ![slot[1].stdin] = @ \o Take(Rest(t), n)]
          /\ sent' = [sent EXCEPT ![t] = @ + n]
    /\ UNCHANGED <<parseVars, targetOs, lock, slot, pc, arg, prog, wslExists, ret, atCall, alive,
                   exitStatus, written, pipe, pump, watcher, accepted, sink>>

\* a write whose pipe error is dropped
WriteOutcomeIgnoresError(s, data, al) ==
    IF s = None THEN NoActiveSession ELSE WriteOk

\* what write_terminal returns with data still to write: write_all writes
\* nothing when data is empty; a write to the pipe of a subprocess that has
\* exited fails with a broken pipe; flush is a no-op
WriteOutcome(s, data, al) ==
    IF s = None THEN NoActiveSession
    ELSE IF data = <<>> THEN WriteOk
    ELSE IF al[s[1].stdin] THEN WriteOk
    ELSE WriteFailed

\* a write_terminal that empties the slot when its pipe write fails
WriteBodyClearsOnError(t) ==
    /\ pc[t] = "writing"
    /\ ~WriteDelivers(slot, Rest(t), alive)
    /\ ret' = [ret EXCEPT ![t] = WriteOutcome(slot, Rest(t), alive)]
    /\ slot' = IF WriteOutcome(slot, Rest(t), alive) = WriteFailed
               THEN None ELSE slot
    /\ accepted' = IF WriteOutcome(slot, Rest(t), alive) = WriteOk
                   THEN [accepted EXCEPT ![slot[1].stdin] = @ \o arg[t]]
                   ELSE accepted
    /\ arg' = [arg EXCEPT ![t] = <<>>]
    /\ sent' = [sent EXCEPT ![t] = 0]
    /\ pc' = [pc EXCEPT ![t] = "idle"]
    /\ atCall' = [atCall EXCEPT ![t] = ""]
    /\ lock' = NoThread
    /\ UNCHANGED <<parseVars, targetOs, prog, wslExists, procVars, sink>>

\* if let Some(ref mut proc) = *guard { write_all; flush; Ok(()) } else { Err }:
\* the return, once nothing more can be written
WriteBody(t) ==
    /\ pc[t] = "writing"
    /\ ~WriteDelivers(slot, Rest(t), alive)
    /\ ret' = [ret EXCEPT ![t] = WriteOutcome(slot, Rest(t), alive)]
    /\ accepted' = IF WriteOutcome(slot, Rest(t), alive) = WriteOk
                   THEN [accepted EXCEPT ![slot[1].stdin] = @ \o arg[t]]
                   ELSE accepted
    /\ arg' = [arg EXCEPT ![t] = <<>>]
    /\ sent' = [sent EXCEPT ![t] = 0]
    /\ pc' = [pc EXCEPT ![t] = "idle"]
    /\ atCall' = [atCall EXCEPT ![t] = ""]
    /\ lock' = NoThread
    /\ UNCHANGED <<parseVars, targetOs, slot, prog, wslExists, procVars, sink>>

(***************************************************************************)
(* The subprocess.                                                         *)
(***************************************************************************)
ChildWrite(pid, ch) ==
    /\ alive[pid]
    /\ Len(written[pid]["stdout"]) + Len(written[pid]["stderr"]) < MaxWrites
    /\ \E b \in OutBlocks :
          /\ written' = [written EXCEPT ![pid][ch] = Append(@, b)]
          /\ pipe' = [pipe EXCEPT ![pid][ch] = @ \o b]
    /\ UNCHANGED <<parseVars, targetOs, lock, slot, pc, arg, sent, accepted, prog, wslExists, ret, atCall, alive,
                   exitStatus,
                   pump, watcher, stdinBuf, sink>>

ChildExit(pid) ==
    /\ alive[pid]
    /\ alive' = [alive EXCEPT ![pid] = FALSE]
    /\ \E st \in {0, 1} : exitStatus' = [exitStatus EXCEPT ![pid] = st]
    /\ UNCHANGED <<parseVars, targetOs, lock, slot, pc, arg, sent, accepted, prog, wslExists, ret, atCall, written, pipe,
                   pump, watcher, stdinBuf, sink>>

(***************************************************************************)
(* The reader threads.                                                     *)
(***************************************************************************)
Event(pid, ch, text) ==
    [event |-> "terminal-output", pid |-> pid, ch |-> ch, text |-> text]

\* a read returns between 1 and buf.len() of the bytes available
ReadSizes(avail) ==
    {n \in 1..Min(avail, BufSize) : n + MaxLeft >= avail}

\* what follows the loop: only the stdout thread emits "[Process exited]"
AfterLoop(pid, ch) ==
    IF ch = "stdout" THEN Append(sink, Event(pid, ch, ProcessExitedMsg))
    ELSE sink

\* Ok(n): the chunk is decoded, logged and emitted
PumpRead(pid, ch) ==
    /\ pump[pid][ch] = "reading"
    /\ \E n \in ReadSizes(Len(pipe[pid][ch])) :
          LET text == FromUtf8Lossy(Take(pipe[pid][ch], n)) IN
          /\ LogSliceOk(text, ChunkLogLimit)
          /\ pipe' = [pipe EXCEPT ![pid][ch] = Drop(@, n)]
          /\ sink' = Append(sink, Event(pid, ch, text))
    /\ UNCHANGED <<parseVars, targetOs, lock, slot, pc, arg, sent, accepted, prog, wslExists, ret, atCall, alive,
                   exitStatus,
                   written, pump, watcher, stdinBuf>>

\* Ok(n): the log line &text[..text.len().min(100)] panics, the thread dies
PumpPanic(pid, ch) ==
    /\ pump[pid][ch] = "reading"
    /\ \E n \in ReadSizes(Len(pipe[pid][ch])) :
          LET text == FromUtf8Lossy(Take(pipe[pid][ch], n)) IN
          /\ ~LogSliceOk(text, ChunkLogLimit)
          /\ pipe' = [pipe EXCEPT ![pid][ch] = Drop(@, n)]
    /\ pump' = [pump EXCEPT ![pid][ch] = "panicked"]
    /\ UNCHANGED <<parseVars, targetOs, lock, slot, pc, arg, sent, accepted, prog, wslExists, ret, atCall, alive,
                   exitStatus,
                   written, watcher, stdinBuf, sink>>

\* Ok(0): every write end is closed and the pipe is drained
PumpEof(pid, ch) ==
    /\ pump[pid][ch] = "reading"
    /\ ~alive[pid]
    /\ pipe[pid][ch] = <<>>
    /\ pump' = [pump EXCEPT ![pid][ch] = "eof"]
    /\ sink' = AfterLoop(pid, ch)
    /\ UNCHANGED <<parseVars, targetOs, lock, slot, pc, arg, sent, accepted, prog, wslExists, ret, atCall, alive,
                   exitStatus,
                   written, pipe, watcher, stdinBuf>>

\* a read error that stops both reader threads
PumpErrStopsBoth(pid, ch) ==
    /\ pump[pid][ch] = "reading"
    /\ pump' = [pump EXCEPT ![pid] = [c \in Channels |-> "error"]]
    /\ sink' = AfterLoop(pid, ch)
    /\ UNCHANGED <<parseVars, targetOs, lock, slot, pc, arg, sent, accepted, prog,
                   wslExists, ret, atCall, alive, exitStatus, written, pipe,
                   watcher, stdinBuf>>

\* Err(e)
PumpErr(pid, ch) ==
    /\ pump[pid][ch] = "reading"
    /\ pump' = [pump EXCEPT ![pid][ch] = "error"]
    /\ sink' = AfterLoop(pid, ch)
    /\ UNCHANGED <<parseVars, targetOs, lock, slot, pc, arg, sent, accepted, prog, wslExists, ret, atCall, alive,
                   exitStatus,
                   written, pipe, watcher, stdinBuf>>

(***************************************************************************)
(* The wait thread: child.wait() returns and the outcome is logged.        *)
(***************************************************************************)
WatcherExit(pid) ==
    /\ watcher[pid] = "waiting"
    /\ ~alive[pid]
    /\ watcher' = [watcher EXCEPT ![pid] = "done"]
    /\ UNCHANGED <<parseVars, targetOs, lock, slot, pc, arg, sent, accepted, prog, wslExists, ret, atCall, alive,
                   exitStatus,
                   written, pipe, pump, stdinBuf, sink>>

(***************************************************************************)
(* The commands: any thread may invoke spawn_terminal or write_terminal.   *)
(***************************************************************************)
Commands ==
    \/ \E t \in Callers : SpawnLock(t)
    \/ \E t \in Callers : SpawnAlreadyRunning(t)
    \/ \E t \in Callers : SpawnLocate(t)
    \/ \E t \in Callers : SpawnFail(t)
    \/ \E t \in Callers : SpawnOk(t)
    \/ \E t \in Callers : SpawnReturn(t)
    \/ \E t \in Callers : WritePanic(t)
    \/ \E t \in Callers : WriteLock(t)
    \/ \E t \in Callers : WriteChunk(t)
    \/ \E t \in Callers : WriteBody(t)

\* the subprocess exits, its pipes close, the threads see it
Exits ==
    \/ \E pid \in Pids : ChildExit(pid)
    \/ \E pid \in Pids : \E ch \in Channels : PumpEof(pid, ch)
    \/ \E pid \in Pids : \E ch \in Channels : PumpErr(pid, ch)
    \/ \E pid \in Pids : WatcherExit(pid)

\* the subprocess writes, the reader threads read
Output ==
    \/ \E pid \in Pids : \E ch \in Channels : ChildWrite(pid, ch)
    \/ \E pid \in Pids : \E ch \in Channels : PumpRead(pid, ch)
    \/ \E pid \in Pids : \E ch \in Channels : PumpPanic(pid, ch)

Next == Commands \/ Exits \/ Output

Spec == Init /\ [][Next]_vars

(***************************************************************************)
(* The commands against a subprocess that prints nothing.                  *)
(***************************************************************************)
NextCommands == Commands \/ Exits

SpecCommands == Init /\ [][NextCommands]_vars

(***************************************************************************)
(* The commands alone. The reader threads touch only their pipes and the   *)
(* frontend, which no command reads, and are left out.                     *)
(***************************************************************************)
\* the subprocess exits and the wait thread sees it
ProcessExits ==
    \/ \E pid \in Pids : ChildExit(pid)
    \/ \E pid \in Pids : WatcherExit(pid)

NextCalls == Commands \/ ProcessExits

SpecCalls == Init /\ [][NextCalls]_vars

(***************************************************************************)
(* The output of one session: spawn_terminal has just returned, and no     *)
(* further command is invoked.                                             *)
(***************************************************************************)
InitStream ==
    /\ targetOs = "linux"
    /\ lock = NoThread
    /\ slot = Some(1)
    /\ pc = [t \in Callers |-> "idle"]
    /\ arg = [t \in Callers |-> <<>>]
    /\ sent = [t \in Callers |-> 0]
    /\ prog = [t \in Callers |-> ""]
    /\ wslExists = [t \in Callers |-> FALSE]
    /\ ret = [t \in Callers |->
                 IF t = 1 THEN Spawned(Locate("linux", FALSE)) ELSE NoRet]
    /\ atCall = [t \in Callers |-> ""]
    /\ alive = <<TRUE>>
    /\ exitStatus = <<NoStatus>>
    /\ written = <<[c \in Channels |-> <<>>]>>
    /\ pipe = <<[c \in Channels |-> <<>>]>>
    /\ pump = <<[c \in Channels |-> "reading"]>>
    /\ watcher = <<"waiting">>
    /\ stdinBuf = <<<<>>>>
    /\ accepted = <<<<>>>>
    /\ sink = <<>>
    /\ NoParse

NextStream == Exits \/ Output

SpecStream == InitStream /\ [][NextStream]_vars

(***************************************************************************)
(* The return of spawn_terminal: thread 1 has spawned bash, set the slot   *)
(* and started the three threads, and has still to return; meanwhile the   *)
(* subprocess writes and exits, the reader threads read and the wait       *)
(* thread sees the exit.                                                   *)
(***************************************************************************)
InitLaunched ==
    /\ targetOs = "linux"
    /\ lock = 1
    /\ slot = Some(1)
    /\ pc = [t \in Callers |-> IF t = 1 THEN "launched" ELSE "idle"]
    /\ arg = [t \in Callers |-> <<>>]
    /\ sent = [t \in Callers |-> 0]
    /\ prog = [t \in Callers |->
                  IF t = 1 THEN Locate("linux", FALSE) ELSE ""]
    /\ wslExists = [t \in Callers |-> FALSE]
    /\ ret = [t \in Callers |-> NoRet]
    /\ atCall = [t \in Callers |-> IF t = 1 THEN "none" ELSE ""]
    /\ alive = <<TRUE>>
    /\ exitStatus = <<NoStatus>>
    /\ written = <<[c \in Channels |-> <<>>]>>
    /\ pipe = <<[c \in Channels |-> <<>>]>>
    /\ pump = <<[c \in Channels |-> "reading"]>>
    /\ watcher = <<"waiting">>
    /\ stdinBuf = <<<<>>>>
    /\ accepted = <<<<>>>>
    /\ sink = <<>>
    /\ NoParse

NextLaunched ==
    \/ \E t \in Callers : SpawnReturn(t)
    \/ ProcessExits
    \/ Output

SpecLaunched == InitLaunched /\ [][NextLaunched]_vars

(***************************************************************************)
(* The writes to one session: spawn_terminal has just returned, and the    *)
(* frontend only invokes write_terminal.                                   *)
(***************************************************************************)
Writes ==
    \/ \E t \in Callers : WritePanic(t)
    \/ \E t \in Callers : WriteLock(t)
    \/ \E t \in Callers : WriteChunk(t)
    \/ \E t \in Callers : WriteBody(t)

NextWrites == Writes \/ Exits

SpecWrites == InitStream /\ [][NextWrites]_vars

(***************************************************************************)
(* parse_knowledge_log on every content of at most MaxLines lines; no      *)
(* command is invoked.                                                     *)
(***************************************************************************)
InitParse ==
    /\ targetOs = "linux"
    /\ lock = NoThread
    /\ slot = None
    /\ pc = [t \in Callers |-> "idle"]
    /\ arg = [t \in Callers |-> <<>>]
    /\ sent = [t \in Callers |-> 0]
    /\ prog = [t \in Callers |-> ""]
    /\ wslExists = [t \in Callers |-> FALSE]
    /\ ret = [t \in Callers |-> NoRet]
    /\ atCall = [t \in Callers |-> ""]
    /\ alive = <<>>
    /\ exitStatus = <<>>
    /\ written = <<>>
    /\ pipe = <<>>
    /\ pump = <<>>
    /\ watcher = <<>>
    /\ stdinBuf = <<>>
    /\ accepted = <<>>
    /\ sink = <<>>
    /\ content \in Contents
    /\ pos = 0
    /\ current_date = ""
    /\ current_type = ""
    /\ current_summary = ""
    /\ current_detail = ""
    /\ current_source = ""
    /\ in_entry = FALSE
    /\ entries = <<>>
    /\ parsed = FALSE

NextParse == ParseDate \/ ParseHeading \/ ParseOther \/ ParseFinish

SpecParse == InitParse /\ [][NextParse]_vars

(***************************************************************************)
(* Properties.                                                             *)
(***************************************************************************)
AlivePids == {p \in Pids : alive[p]}

\* thread t leaves the check at the head of spawn_terminal in this step
StartChecked(t) == pc[t] = "spawn_locked" /\ pc'[t] # "spawn_locked"

\* thread t comes back from the pipe write of write_terminal in this step
WriteDone(t) == pc[t] = "writing" /\ pc'[t] = "idle"

\* thread t comes back from write_terminal in this step, by return or by panic
WriteResults == {WriteOk, NoActiveSession, WriteFailed, Panicked}
WriteReturns(t) ==
    pc'[t] = "idle" /\ ret'[t] # ret[t] /\ ret'[t] \in WriteResults

\* the session_ended notifications the frontend has received for subprocess p
SessionEnded(p) ==
    {i \in 1..Len(sink) : sink[i].event = "session-ended" /\ sink[i].pid = p}

\* the output chunks of subprocess p on channel ch, as positions of sink
Chunks(p, ch) ==
    {i \in 1..Len(sink) :
        /\ sink[i].event = "terminal-output"
        /\ sink[i].pid = p
        /\ sink[i].ch = ch
        /\ sink[i].text # ProcessExitedMsg}

\* their texts, concatenated in delivery order
RECURSIVE DeliveredFrom(_, _, _)
DeliveredFrom(p, ch, i) ==
    IF i > Len(sink) THEN <<>>
    ELSE (IF i \in Chunks(p, ch) THEN sink[i].text ELSE <<>>)
         \o DeliveredFrom(p, ch, i + 1)

Delivered(p, ch) == DeliveredFrom(p, ch, 1)

\* C1: in every reachable state at most one subprocess spawned by the bridge
\* is alive, and a live subprocess is the one whose stdin the slot holds, so
\* concurrent spawn_terminal calls never both spawn.
C1_SingleSession ==
    /\ Cardinality(AlivePids) <= 1
    /\ \A p \in AlivePids : slot = Some(p)

\* one start spawned, the other was told "already running", one subprocess lives
C1_Witness ==
    \E t1, t2 \in Callers :
        /\ ret[t1].kind = "spawned"
        /\ ret[t2] = AlreadyRunning
        /\ alive = <<TRUE>>

\* C2: a spawn_terminal call that finds the slot occupied returns the non-error
\* "already running" and changes neither the slot nor any subprocess, reader
\* thread, wait thread, pipe or emitted event.
C2_AlreadyRunningNoEffect ==
    [][\A t \in Callers :
          (StartChecked(t) /\ slot # None)
          => /\ ret'[t] = AlreadyRunning
             /\ pc'[t] = "idle"
             /\ UNCHANGED <<slot, procVars, sink>>]_vars

\* a start was answered "already running" while the subprocess is alive
C2_Witness ==
    \E t \in Callers :
        /\ pc[t] = "idle"
        /\ ret[t] = AlreadyRunning
        /\ slot # None
        /\ alive[slot[1].stdin]

\* C3: a spawn_terminal call that begins once the subprocess has exited and
\* the end of the session has been seen (the wait thread and both reader
\* threads are done) is not answered "already running".
C3_RestartAfterExit ==
    [][\A t \in Callers :
          (StartChecked(t) /\ atCall[t] = "over")
          => ret'[t] # AlreadyRunning]_vars

\* C4: once the wait thread has seen the subprocess exit and finished, the
\* slot no longer holds that subprocess.
C4_WatcherClearsSlot ==
    \A p \in Pids : watcher[p] = "done" => slot # Some(p)

\* C5: the frontend receives session_ended at most once per subprocess, and
\* has received it once the wait thread has finished.
C5_SessionEndedOnce ==
    \A p \in Pids :
        /\ Cardinality(SessionEnded(p)) <= 1
        /\ watcher[p] = "done" => Cardinality(SessionEnded(p)) = 1

\* C6: every write_terminal call made while the slot is None returns the
\* NoActiveSession error, whatever its data, and changes nothing.
C6_NoActiveSession ==
    [][\A t \in Callers :
          (slot = None /\ WriteReturns(t))
          => /\ ret'[t] = NoActiveSession
             /\ UNCHANGED <<slot, procVars, sink>>]_vars

C8_SpawnFailure ==
    [][\A t \in Callers :
          /\ (pc[t] = "spawning" /\ ret'[t].kind = "Failed to spawn")
             => /\ ret'[t] = SpawnFailed(prog[t])
                /\ prog[t] \in {"bash", "wsl.exe", "cmd.exe"}
                /\ slot = None
                /\ slot' = None
                /\ UNCHANGED <<procVars, sink>>
          /\ (StartChecked(t) /\ ret'[t] = AlreadyRunning) => slot # None]_vars

\* one start failed to spawn and a later one spawned
C8_Witness ==
    \E t1, t2 \in Callers :
        /\ ret[t1].kind = "Failed to spawn"
        /\ ret[t2].kind = "spawned"
        /\ slot # None

\* C9: when a reader thread has reached end of stream, the chunks it
\* delivered, concatenated in order, are the decoding of all the bytes the
\* subprocess wrote to that channel.
C9_RoundTrip ==
    \A p \in Pids : \A ch \in Channels :
        pump[p][ch] = "eof"
        => Delivered(p, ch) = FromUtf8Lossy(Flatten(written[p][ch]))

\* C10: when the subprocess has printed "$ " and exited with status 0, and the
\* wait thread and the reader threads have finished, the frontend has received
\* a chunk of that output and, after it, the session_ended notification.
C10_OutputBeforeEnded ==
    \A p \in Pids :
        ( /\ written[p]["stdout"] = <<BlockPrompt>>
          /\ exitStatus[p] = 0
          /\ watcher[p] = "done"
          /\ \A ch \in Channels : pump[p][ch] = "eof" )
        => \E i \in Chunks(p, "stdout") : \E j \in SessionEnded(p) : i < j

\* thread t writes bytes of its data to the pipe in this step
PipeWrite(t) == sent'[t] > sent[t]

\* C11: no operation holds the TerminalState guard while it does pipe I/O:
\* write_terminal has released the guard at every step in which it writes
\* to the pipe, so a blocked write cannot keep another command from the guard.
C11_GuardFreeDuringWrite ==
    [][\A t \in Callers : PipeWrite(t) => lock # t]_vars

\* the bytes the write_terminal call in progress has written so far
InFlight ==
    IF lock \in Callers
    THEN IF pc[lock] = "writing" THEN Take(arg[lock], sent[lock]) ELSE <<>>
    ELSE <<>>

IsPrefix(a, b) == Len(a) <= Len(b) /\ Take(b, Len(a)) = a

\* C12: the subprocess input is exactly the data of the write_terminal calls
\* that returned Ok(()), byte for byte, concatenated in the order of the calls;
\* while the subprocess runs, the only other bytes on its input are the part
\* already written by the call still in progress.
C12_OkWritesConcatenate ==
    \A p \in Pids :
        /\ IsPrefix(accepted[p], stdinBuf[p])
        /\ alive[p] => stdinBuf[p] = accepted[p] \o InFlight

\* two write_terminal("ls\n") calls have returned Ok(()) on a running session
C12_Witness ==
    \E p \in Pids :
        /\ alive[p]
        /\ lock = NoThread
        /\ accepted[p] = DataLs \o DataLs
        /\ stdinBuf[p] = DataLs \o DataLs

\* C13: the shell selection never fails and is a function of the platform and
\* of the presence of wsl.exe at its fixed path: every spawn_terminal call
\* that finds the slot empty goes on to spawn, without arguments, wsl.exe on
\* Windows exactly when the probe found it and cmd.exe otherwise, and bash
\* on every other platform.
C13_ShellLocator ==
    [][\A t \in Callers :
          (StartChecked(t) /\ slot = None)
          => /\ pc'[t] = "spawning"
             /\ ret'[t] = NoRet
             /\ LocateArgs(targetOs, wslExists'[t]) = <<>>
             /\ IF targetOs = "windows"
                THEN /\ prog'[t] = "wsl.exe" <=> wslExists'[t]
                     /\ prog'[t] = "cmd.exe" <=> ~wslExists'[t]
                ELSE prog'[t] = "bash"]_vars

\* on Windows one call has spawned cmd.exe for want of wsl.exe
C13_Witness ==
    \E t \in Callers :
        /\ targetOs = "windows"
        /\ ret[t] = Spawned("cmd.exe")
        /\ slot # None

\* thread t takes a step of write_terminal: the lock, a write(), the return
\* or the panic
WriteStep(t) ==
    \/ pc[t] = "idle" /\ pc'[t] = "writing"
    \/ PipeWrite(t)
    \/ WriteReturns(t)

\* C14: no step of write_terminal changes the slot or the state of the
\* session in it, whatever the call returns: after Ok(()), "No terminal
\* process running" or "Write failed" the slot holds what it held, and a
\* failed write neither empties it nor marks the subprocess as exited.
C14_WriteLeavesSlot ==
    [][\A t \in Callers :
          WriteStep(t)
          => /\ slot' = slot
             /\ alive' = alive
             /\ watcher' = watcher
             /\ ret'[t] = WriteFailed => slot' # None]_vars

\* one call was refused for want of a session, another failed on the pipe of
\* the dead subprocess that the slot still holds
C14_Witness ==
    \E t, u \in Callers :
        /\ ret[t] = NoActiveSession
        /\ ret[u] = WriteFailed
        /\ slot # None

\* the bytes the reader thread of channel ch takes from its pipe in this step
Consumed(p, ch) ==
    Take(pipe[p][ch], Len(pipe[p][ch]) - Len(pipe'[p][ch]))

\* C15: a read error in one reader thread ends that thread only: the step
\* leaves the slot, the subprocess, the wait thread and the other reader
\* thread with its pipe as they were, and a read the other thread makes
\* afterwards still emits its chunk.
C15_ReadErrorIsLocal ==
    [][\A p \in Pids : \A ch \in Channels : \A o \in Channels \ {ch} :
          /\ (pump[p][ch] = "reading" /\ pump'[p][ch] = "error")
             => /\ slot' = slot
                /\ alive' = alive
                /\ exitStatus' = exitStatus
                /\ watcher' = watcher
                /\ pump'[p][o] = pump[p][o]
                /\ pipe'[p][o] = pipe[p][o]
          /\ ( /\ pump[p][ch] = "error"
               /\ pump'[p][o] = "reading"
               /\ Len(pipe'[p][o]) < Len(pipe[p][o]) )
             => sink' = Append(sink, Event(p, o, FromUtf8Lossy(Consumed(p, o))))
      ]_vars

\* the stdout thread has ended on a read error while the subprocess runs, and
\* a stderr chunk has been emitted after the stdout thread's last event
C15_Witness ==
    \E p \in Pids :
        /\ slot = Some(p)
        /\ alive[p]
        /\ pump[p]["stdout"] = "error"
        /\ pump[p]["stderr"] = "reading"
        /\ \E i, j \in 1..Len(sink) :
              /\ i < j
              /\ sink[i] = Event(p, "stdout", ProcessExitedMsg)
              /\ sink[j].ch = "stderr"

\* the events this step adds to what the frontend has received
NewEvents == Drop(sink', Len(sink))

\* C16: both reader threads end in the same way: at end-of-stream a thread
\* emits no report of an error, at a read error it emits one last chunk that
\* reports the error, and in both cases the stdout thread and the stderr
\* thread emit as many events as each other.
C16_SameTermination ==
    [][\A p \in Pids : \A ch \in Channels : \A o \in Channels \ {ch} :
          /\ (pump[p][ch] = "reading" /\ pump'[p][ch] = "eof")
             => /\ \A i \in 1..Len(NewEvents) :
                      NewEvents[i].text = ProcessExitedMsg
                /\ Len(NewEvents) = Len(AfterLoop(p, o)) - Len(sink)
          /\ (pump[p][ch] = "reading" /\ pump'[p][ch] = "error")
             => /\ Len(NewEvents) = 1
                /\ NewEvents[1].ch = ch
                /\ NewEvents[1].text # ProcessExitedMsg
                /\ Len(NewEvents) = Len(AfterLoop(p, o)) - Len(sink)]_vars

\* C17: once spawn_terminal has spawned the subprocess, set the slot and
\* started the reader and wait threads, its return waits for nothing: it can
\* return at once whether or not a reader thread has read, the subprocess
\* has written anything or the subprocess has exited.
C17_StartReturnsAtOnce ==
    \A t \in Callers :
        pc[t] = "launched"
        => /\ slot # None
           /\ slot[1].stdin \in Pids
           /\ lock = t
           /\ ENABLED SpawnReturn(t)

\* spawn_terminal has returned "spawned bash" while the subprocess runs,
\* has written nothing, and no reader thread has read or emitted anything
C17_Witness ==
    /\ ret[1] = Spawned("bash")
    /\ pc[1] = "idle"
    /\ lock = NoThread
    /\ alive = <<TRUE>>
    /\ watcher = <<"waiting">>
    /\ \A ch \in Channels : pump[1][ch] = "reading" /\ written[1][ch] = <<>>
    /\ sink = <<>>

\* the "### " lines of a content, and the k-th of them
SubHeadings(c) == {i \in 1..Len(c) : StartsWith(c[i], "### ")}
KthSubHeading(c, k) ==
    CHOOSE i \in SubHeadings(c) :
        Cardinality({j \in SubHeadings(c) : j < i}) = k - 1

Last(S) == CHOOSE x \in S : \A y \in S : y <= x

\* the text of the last "## " heading above line i, "" when there is none
DateAbove(c, i) ==
    LET above == {j \in 1..(i - 1) :
                     StartsWith(c[j], "## ") /\ ~StartsWith(c[j], "### ")} IN
    IF above = {} THEN "" ELSE HeadingText(c[Last(above)], "## ")

\* the lines below the "### " line i, down to the next heading
Below(c, i) ==
    {j \in (i + 1)..Len(c) :
        \A k \in (i + 1)..j : ~StartsWith(c[k], "## ") /\ ~StartsWith(c[k], "### ")}

\* the text of the last annotation with this tag below the "### " line i
Annotation(c, i, tag) ==
    LET tagged == {j \in Below(c, i) :
                      StartsWith(TrimStartMatches(c[j], "- "), tag)} IN
    IF tagged = {} THEN ""
    ELSE Trim(StrDrop(TrimStartMatches(c[Last(tagged)], "- "), Len(tag)))

\* C18: when parse_knowledge_log returns it has pushed exactly one record
\* for each "### " line, in the order of the lines; the record of a "### "
\* line has the date of the last "## " heading above it ("" when there is
\* none), an empty type and the whole header as summary when the header has
\* no "[TYPE]" prefix, and the detail and source of the annotation lines
\* below it only, so that annotation lines outside an entry are ignored.
C18_OneRecordPerSubHeading ==
    /\ in_entry \in BOOLEAN
    /\ parsed =>
          /\ Len(entries) = Cardinality(SubHeadings(content))
          /\ \A k \in 1..Len(entries) :
                LET i == KthSubHeading(content, k)
                    header == HeadingText(content[i], "### ")
                IN  /\ entries[k].date = DateAbove(content, i)
                    /\ ~WellFormed(header)
                       => /\ entries[k].type = ""
                          /\ entries[k].summary = header
                    /\ WellFormed(header)
                       => /\ entries[k].type = EntryType(header)
                          /\ entries[k].summary = EntrySummary(header)
                    /\ entries[k].detail = Annotation(content, i, DetailTag)
                    /\ entries[k].source = Annotation(content, i, SourceTag)

\* a date heading, an annotation line outside any entry and a "### " line
\* without "[TYPE]" have given one record, dated, with no type and no detail
C18_Witness ==
    /\ parsed
    /\ content = <<"## 2024-01-05", "- **Detail**: more", "### Plain note">>
    /\ entries = <<[engagement |-> Engagement,
                    workstream |-> Workstream,
                    date |-> "2024-01-05",
                    type |-> "",
                    summary |-> "Plain note",
                    detail |-> "",
                    source |-> ""]>>

\* the data that reach the pipe
Payloads == {d \in WriteData : d # <<>> /\ LogSliceOk(d, WriteLogLimit)}

\* whole payloads one after another, then at most the beginning of one more
RECURSIVE Serial(_)
Serial(b) ==
    \/ \E d \in Payloads : IsPrefix(b, d)
    \/ \E d \in Payloads : IsPrefix(d, b) /\ Serial(Drop(b, Len(d)))

\* C19: concurrent write_terminal calls are serialized: at most one call is
\* writing at a time, and the bytes the subprocess has received are the data
\* of whole calls one after another, followed at most by the part written so
\* far by the one call in progress; bytes of two calls are never interleaved.
C19_WritesSerialized ==
    /\ Cardinality({t \in Callers : pc[t] = "writing"}) <= 1
    /\ \A t \in Callers : pc[t] = "writing" => lock = t
    /\ \A p \in Pids : Serial(stdinBuf[p])

\* one call has returned Ok(()) and another thread's call, which had to wait
\* for it, is part-way through its own data
C19_Witness ==
    \E t, u \in Callers :
        /\ t # u
        /\ ret[t] = WriteOk
        /\ pc[u] = "writing"
        /\ arg[u] = DataLs
        /\ 0 < sent[u]
        /\ sent[u] < Len(arg[u])
        /\ alive = <<TRUE>>
        /\ stdinBuf[1] = DataLs \o Take(arg[u], sent[u])

\* the "[Process exited]" events the frontend has received for subprocess p
ExitedMarks(p) ==
    {i \in 1..Len(sink) : sink[i] = Event(p, "stdout", ProcessExitedMsg)}

\* C20: for each session "[Process exited]" is emitted exactly once, by the
\* stdout reader thread when it is done reading: never twice, once as soon
\* as that thread no longer reads, and after every stdout chunk.
C20_ExitedMarkOnce ==
    \A p \in Pids :
        /\ Cardinality(ExitedMarks(p)) <= 1
        /\ pump[p]["stdout"] # "reading" => Cardinality(ExitedMarks(p)) = 1
        /\ \A i \in ExitedMarks(p) : \A j \in Chunks(p, "stdout") : j < i
====
